---- MODULE Spec2Model ----
(***************************************************************************)
(* State-machine model of ingest_toggl_data (src/function_app.py): the     *)
(* HTTP-triggered ingestion run that truncates the staging table and then  *)
(* loads the pages of the Toggl search API into it, one commit per page.   *)
(*                                                                         *)
(* Python values are pairs <<tag, n>>: <<"none",0>> is None, <<"bool",1>>  *)
(* is True, <<"int",n>> an integer, <<"str",n>> a string (n = 0 is the     *)
(* empty string) and <<"absent",0>> marks a key a dict does not have.      *)
(***************************************************************************)
EXTENDS Integers, Sequences, FiniteSets, TLC

\* ------------------------------------------------------------------ bounds
\* Most page requests one run issues in the model.
MaxPages == 2
\* Most rows the staging table takes in the model of the unbounded loop.
MaxStaged == 2
\* Most entries the API puts on one page in the model.
MaxPageLen == 2

\* ------------------------------------------------------- Python values
Absent == <<"absent", 0>>
None == <<"none", 0>>
PyTrue == <<"bool", 1>>
PyFalse == <<"bool", 0>>
PyInt(n) == <<"int", n>>
PyStr(n) == <<"str", n>>

\* Python truthiness of a value (`if v` / `not v`).
Truthy(v) == v[1] \in {"bool", "int", "str"} /\ v[2] # 0

\* dict.get(key): the value, or None when the key is missing.
Get(d, key) == IF d[key] = Absent THEN None ELSE d[key]

\* --------------------------------------------------------- configuration
ConfigKeys == {"TOGGL_API_TOKEN", "TOGGL_WORKSPACE_ID", "SqlConnectionString"}

\* A variant that reads the connection string with os.environ.get, so that its
\* absence raises no KeyError.
ConfigMissing_SqlNotRequired(e) == \E k \in ConfigKeys \ {"SqlConnectionString"} : ~e[k]

\* The three os.environ[...] reads: a KeyError when any of them is missing.
ConfigMissing(e) == \E k \in ConfigKeys : ~e[k]

\* ---------------------------------------------------------- request body
\* kind "invalid": get_json() raises ValueError; "nonobject": valid JSON that
\* is not an object (a list, null, a number, a string); "object": a dict.
DateValues == {Absent, None, PyStr(0), PyStr(1)}

Bodies ==
    {[kind |-> "invalid", start_date |-> Absent, end_date |-> Absent],
     [kind |-> "nonobject", start_date |-> Absent, end_date |-> Absent]}
    \cup [kind : {"object"}, start_date : DateValues, end_date : DateValues]

\* A variant that tests start_date only.
MissingDate_StartOnly(b) == ~Truthy(Get(b, "start_date"))

\* `if not start_date or not end_date`
MissingDate(b) == ~Truthy(Get(b, "start_date")) \/ ~Truthy(Get(b, "end_date"))

\* ------------------------------------------------------------ API entries
Detail(id, start, stop, seconds, at) ==
    [id |-> id, start |-> start, stop |-> stop, seconds |-> seconds, at |-> at]

NoList == [tag |-> "absent", items |-> <<>>]
NullList == [tag |-> "none", items |-> <<>>]
List(s) == [tag |-> "list", items |-> s]

\* `not entry.get('time_entries')`: key missing, null or an empty list.
NoDetails(entry) == entry.time_entries.tag # "list" \/ entry.time_entries.items = <<>>

\* 1 if entry.get('billable') else 0
is_billable(entry) == IF Truthy(Get(entry, "billable")) THEN PyInt(1) ELSE PyInt(0)

\* A variant that reads the last detail record instead of the first.
Row_LastDetail(entry) ==
    LET details == entry.time_entries.items[Len(entry.time_entries.items)]
    IN  << Get(details, "id"),
           Get(entry, "user_id"),
           Get(entry, "project_id"),
           Get(entry, "task_id"),
           Get(entry, "billable"),
           Get(entry, "description"),
           Get(details, "start"),
           Get(details, "stop"),
           Get(details, "seconds"),
           Get(details, "at") >>

\* The row tuple built for one entry that has details.
Row(entry) ==
    LET details == entry.time_entries.items[1]
    IN  << Get(details, "id"),
           Get(entry, "user_id"),
           Get(entry, "project_id"),
           Get(entry, "task_id"),
           Get(entry, "billable"),
           Get(entry, "description"),
           Get(details, "start"),
           Get(details, "stop"),
           Get(details, "seconds"),
           Get(details, "at") >>

\* The `for entry in data` loop: rows_to_insert for one page.
RECURSIVE Flatten(_)
Flatten(data) ==
    IF data = <<>> THEN <<>>
    ELSE IF NoDetails(Head(data)) THEN Flatten(Tail(data))
         ELSE <<Row(Head(data))>> \o Flatten(Tail(data))

\* Entries the modelled API serves.
EntryA ==
    [user_id |-> PyInt(7), project_id |-> PyInt(3), task_id |-> Absent,
     billable |-> PyTrue, description |-> PyStr(1),
     time_entries |-> List(<< Detail(PyInt(100), PyStr(2), PyStr(3), PyInt(60), PyStr(4)),
                              Detail(PyInt(101), PyStr(5), PyStr(6), PyInt(30), PyStr(7)) >>)]
EntryB ==
    [user_id |-> PyInt(8), project_id |-> None, task_id |-> PyInt(5),
     billable |-> Absent, description |-> PyStr(0),
     time_entries |-> List(<< Detail(PyInt(200), PyStr(2), Absent, PyInt(0), PyStr(4)) >>)]
EntryC ==
    [user_id |-> PyInt(9), project_id |-> PyInt(3), task_id |-> None,
     billable |-> PyFalse, description |-> PyStr(1),
     time_entries |-> List(<<>>)]

ApiEntries == {EntryA, EntryB, EntryC}

RECURSIVE SeqsUpTo(_, _)
SeqsUpTo(S, n) ==
    IF n = 0 THEN {<<>>}
    ELSE LET shorter == SeqsUpTo(S, n - 1)
         IN  shorter \cup {Append(s, x) : s \in {t \in shorter : Len(t) = n - 1}, x \in S}

\* The decoded JSON bodies a 2xx response can carry.
ApiPages == SeqsUpTo(ApiEntries, MaxPageLen)

\* Values of the X-Next-Row-Number response header: missing, empty, a decimal
\* number, or text int() rejects.
NoHeader == <<"absent", 0>>
EmptyHeader == <<"str", 0>>
BadHeader == <<"str", -1>>
NumHeader(n) == <<"str", n>>
NextRows == {51}
HeaderValues == {NoHeader, EmptyHeader, BadHeader} \cup {NumHeader(n) : n \in NextRows}


\* int(next_row): the number, or -1 when int() raises ValueError.
IntOf(h) == IF h[1] = "str" /\ h[2] > 0 THEN h[2] ELSE -1

\* ------------------------------------------------------------------ state
Runs == {1, 2}

VARIABLES
    audit,    \* whether the histories calls and pages are kept (never changes)
    env,      \* os.environ: which configuration variables are set
    req,      \* req[r]: the request body of invocation r
    st,       \* st[r]: position and local variables of invocation r
    table,    \* committed contents of [dbo].[StageTogglTimeEntries]
    calls,    \* calls[r]: history of the outbound calls r has made, in order
    pages     \* pages[r]: history of the 2xx JSON responses r has received

vars == <<audit, env, req, st, table, calls, pages>>

\* Statements of a session that are not committed yet.
TruncateOp == [kind |-> "truncate", rows |-> <<>>]
InsertOp(rows) == [kind |-> "insert", rows |-> rows]

\* A variant in which the truncate leaves the rows in place (append, not replace).
RECURSIVE ApplyOps_AppendOnly(_, _)
ApplyOps_AppendOnly(t, ops) ==
    IF ops = <<>> THEN t
    ELSE ApplyOps_AppendOnly(t \o Head(ops).rows, Tail(ops))

\* What a successful commit makes of the table.
RECURSIVE ApplyOps(_, _)
ApplyOps(t, ops) ==
    IF ops = <<>> THEN t
    ELSE ApplyOps(IF Head(ops).kind = "truncate" THEN <<>> ELSE t \o Head(ops).rows,
                  Tail(ops))

Call(op, res) == [op |-> op, res |-> res]

NumCalls(r, op) == Cardinality({i \in DOMAIN calls[r] : calls[r][i].op = op})

\* The histories after run r makes call c, or receives the decoded response p.
Logged(r, c) == IF audit THEN [calls EXCEPT ![r] = Append(@, c)] ELSE calls
Received(r, p) == IF audit THEN [pages EXCEPT ![r] = Append(@, p)] ELSE pages

\* A row an earlier run left in the staging table.
OldRow == Row([EntryA EXCEPT !.user_id = PyInt(1)])

InitialTables == {<<>>, <<OldRow>>}

Local0 ==
    [pc |-> "idle", status |-> 0, raised |-> FALSE, conn |-> "none", pending |-> <<>>,
     first_row_number |-> 0, total_loaded |-> 0, data |-> <<>>, next_row |-> NoHeader,
     rows_to_insert |-> <<>>]

\* rs: the invocations that take place; the others stay idle. a: whether the
\* histories are kept.
InitWith(rs, a) ==
    /\ audit = a
    /\ env \in [ConfigKeys -> BOOLEAN]
    /\ req \in [Runs -> Bodies]
    /\ \A r \in Runs \ rs : req[r] = [kind |-> "invalid", start_date |-> Absent, end_date |-> Absent]
    /\ st = [r \in Runs |-> IF r \in rs THEN [Local0 EXCEPT !.pc = "config"] ELSE Local0]
    /\ table \in InitialTables
    /\ calls = [r \in Runs |-> <<>>]
    /\ pages = [r \in Runs |-> <<>>]

Init == InitWith({1}, TRUE)

\* ---------------------------------------------------------------- actions
\* Lines 33-42: read the three configuration variables.
LoadConfig(r) ==
    /\ st[r].pc = "config"
    /\ st' = IF ConfigMissing(env)
             THEN [st EXCEPT ![r].status = 500, ![r].pc = "done"]
             ELSE [st EXCEPT ![r].pc = "body"]
    /\ UNCHANGED <<audit, env, req, table, calls, pages>>

\* Lines 44-52: decode the body and require both dates.
ParseBody(r) ==
    /\ st[r].pc = "body"
    /\ st' = CASE req[r].kind = "invalid" ->
                    [st EXCEPT ![r].status = 400, ![r].pc = "done"]
               [] req[r].kind = "nonobject" ->
                    \* req_body.get raises AttributeError, which `except ValueError`
                    \* does not catch: the handler raises instead of returning.
                    [st EXCEPT ![r].raised = TRUE, ![r].pc = "done"]
               [] OTHER ->
                    IF MissingDate(req[r])
                    THEN [st EXCEPT ![r].status = 400, ![r].pc = "done"]
                    ELSE [st EXCEPT ![r].pc = "connect"]
    /\ UNCHANGED <<audit, env, req, table, calls, pages>>

\* Line 57: pyodbc.connect.
Connect(r) ==
    /\ st[r].pc = "connect"
    /\ \E ok \in BOOLEAN :
        /\ calls' = Logged(r, Call("connect", IF ok THEN "ok" ELSE "fail"))
        /\ st' = IF ok THEN [st EXCEPT ![r].conn = "open", ![r].pc = "truncate"]
                 ELSE [st EXCEPT ![r].pc = "except"]
    /\ UNCHANGED <<audit, env, req, table, pages>>

\* A variant whose TRUNCATE statement never reaches the session's transaction.
Truncate_NotExecuted(r) ==
    /\ st[r].pc = "truncate"
    /\ \E ok \in BOOLEAN :
        /\ calls' = Logged(r, Call("truncate", IF ok THEN "ok" ELSE "fail"))
        /\ st' = IF ok THEN [st EXCEPT ![r].pc = "commit_truncate"]
                 ELSE [st EXCEPT ![r].pc = "except"]
    /\ UNCHANGED <<audit, env, req, table, pages>>

\* Lines 58-59: execute TRUNCATE TABLE in the session's transaction.
Truncate(r) ==
    /\ st[r].pc = "truncate"
    /\ \E ok \in BOOLEAN :
        /\ calls' = Logged(r, Call("truncate", IF ok THEN "ok" ELSE "fail"))
        /\ st' = IF ok THEN [st EXCEPT ![r].pending = Append(@, TruncateOp),
                                       ![r].pc = "commit_truncate"]
                 ELSE [st EXCEPT ![r].pc = "except"]
    /\ UNCHANGED <<audit, env, req, table, pages>>

\* A variant that goes on to the loop when the commit of the truncate fails.
CommitTruncate_IgnoresFailure(r) ==
    /\ st[r].pc = "commit_truncate"
    /\ \E ok \in BOOLEAN :
        /\ calls' = Logged(r, Call("commit", IF ok THEN "ok" ELSE "fail"))
        /\ table' = IF ok THEN ApplyOps(table, st[r].pending) ELSE table
        /\ st' = [st EXCEPT ![r].pending = <<>>, ![r].first_row_number = 1,
                            ![r].total_loaded = 0, ![r].pc = "fetch"]
    /\ UNCHANGED <<audit, env, req, pages>>

\* A variant that forgets conn.commit() after the truncate.
CommitTruncate_NoCommit(r) ==
    /\ st[r].pc = "commit_truncate"
    /\ st' = [st EXCEPT ![r].first_row_number = 1, ![r].total_loaded = 0, ![r].pc = "fetch"]
    /\ UNCHANGED <<audit, env, req, table, calls, pages>>

\* Lines 60-64: commit the truncate, then initialise the loop variables.
CommitTruncate(r) ==
    /\ st[r].pc = "commit_truncate"
    /\ \E ok \in BOOLEAN :
        /\ calls' = Logged(r, Call("commit", IF ok THEN "ok" ELSE "fail"))
        /\ table' = IF ok THEN ApplyOps(table, st[r].pending) ELSE table
        /\ st' = IF ok THEN [st EXCEPT ![r].pending = <<>>, ![r].first_row_number = 1,
                                       ![r].total_loaded = 0, ![r].pc = "fetch"]
                 ELSE [st EXCEPT ![r].pc = "except"]
    /\ UNCHANGED <<audit, env, req, pages>>


\* Responses requests.post can produce for one page request.
PostOutcomes == {"ok", "neterr", "non2xx", "badjson"}

\* A variant without the empty-page break.
EmptyPage_NeverBreaks(data) == FALSE

\* `if not data`
EmptyPage(data) == data = <<>>

\* A variant without the empty-batch guard.
HasRows_Always(rows) == TRUE

\* `if rows_to_insert`
HasRows(rows) == rows # <<>>

\* Where the loop body goes once the response is decoded (lines 81-112).
AfterFetch(data) ==
    IF EmptyPage(data) THEN "return_ok"
    ELSE IF HasRows(Flatten(data)) THEN "insert" ELSE "paginate"

\* A variant that asks again when the response status is not 2xx.
FetchPage_RetriesNon2xx(r) ==
    /\ st[r].pc = "fetch"
    /\ audit => NumCalls(r, "post") < MaxPages
    /\ \E res \in PostOutcomes :
        /\ calls' = Logged(r, Call("post", res))
        /\ IF res = "ok"
           THEN \E data \in ApiPages, h \in HeaderValues :
                   /\ pages' = Received(r, [data |-> data, next_row |-> h,
                                            first_row_number |-> st[r].first_row_number])
                   /\ st' = [st EXCEPT ![r].data = data, ![r].next_row = h,
                                       ![r].rows_to_insert = IF EmptyPage(data) THEN @ ELSE Flatten(data),
                                       ![r].pc = AfterFetch(data)]
           ELSE /\ st' = [st EXCEPT ![r].pc = IF res = "non2xx" THEN "fetch" ELSE "except"]
                /\ UNCHANGED pages
    /\ UNCHANGED <<audit, env, req, table>>

\* Lines 66-109: build the payload, POST it, check the status, decode the JSON
\* body and flatten it into rows_to_insert.
FetchPage(r) ==
    /\ st[r].pc = "fetch"
    /\ audit => NumCalls(r, "post") < MaxPages
    /\ \E res \in PostOutcomes :
        /\ calls' = Logged(r, Call("post", res))
        /\ IF res = "ok"
           THEN \E data \in ApiPages, h \in HeaderValues :
                   /\ pages' = Received(r, [data |-> data, next_row |-> h,
                                            first_row_number |-> st[r].first_row_number])
                   /\ st' = [st EXCEPT ![r].data = data, ![r].next_row = h,
                                       ![r].rows_to_insert = IF EmptyPage(data) THEN @ ELSE Flatten(data),
                                       ![r].pc = AfterFetch(data)]
           ELSE /\ st' = [st EXCEPT ![r].pc = "except"]
                /\ UNCHANGED pages
    /\ UNCHANGED <<audit, env, req, table>>

\* A variant that waits for the other invocations to leave the staging table
\* alone (an application lock) before it inserts.
InsertBatch_Locked(r) ==
    /\ st[r].pc = "insert"
    /\ \A q \in Runs \ {r} : st[q].pc \notin {"commit_truncate", "fetch", "insert", "commit", "paginate"}
    /\ \E ok \in BOOLEAN :
        /\ calls' = Logged(r, Call("insert", IF ok THEN "ok" ELSE "fail"))
        /\ st' = IF ok THEN [st EXCEPT ![r].pending = Append(@, InsertOp(st[r].rows_to_insert)),
                                       ![r].pc = "commit"]
                 ELSE [st EXCEPT ![r].pc = "except"]
    /\ UNCHANGED <<audit, env, req, table, pages>>

\* Lines 113-120: cursor.executemany of the page's rows.
InsertBatch(r) ==
    /\ st[r].pc = "insert"
    /\ \E ok \in BOOLEAN :
        /\ calls' = Logged(r, Call("insert", IF ok THEN "ok" ELSE "fail"))
        /\ st' = IF ok THEN [st EXCEPT ![r].pending = Append(@, InsertOp(st[r].rows_to_insert)),
                                       ![r].pc = "commit"]
                 ELSE [st EXCEPT ![r].pc = "except"]
    /\ UNCHANGED <<audit, env, req, table, pages>>

\* A variant that counts batches instead of rows.
AddLoaded_CountsBatches(total, rows) == total + 1

\* total_loaded += len(rows_to_insert)
AddLoaded(total, rows) == total + Len(rows)

\* A variant that counts the rows before it commits them.
CommitBatch_CountsFirst(r) ==
    /\ st[r].pc = "commit"
    /\ \E ok \in BOOLEAN :
        /\ calls' = Logged(r, Call("commit", IF ok THEN "ok" ELSE "fail"))
        /\ table' = IF ok THEN ApplyOps(table, st[r].pending) ELSE table
        /\ st' = IF ok THEN [st EXCEPT ![r].pending = <<>>,
                                       ![r].total_loaded = AddLoaded(@, st[r].rows_to_insert),
                                       ![r].pc = "paginate"]
                 ELSE [st EXCEPT ![r].total_loaded = AddLoaded(@, st[r].rows_to_insert),
                                 ![r].pc = "except"]
    /\ UNCHANGED <<audit, env, req, pages>>

\* Lines 121-122: commit the page, then count its rows.
CommitBatch(r) ==
    /\ st[r].pc = "commit"
    /\ \E ok \in BOOLEAN :
        /\ calls' = Logged(r, Call("commit", IF ok THEN "ok" ELSE "fail"))
        /\ table' = IF ok THEN ApplyOps(table, st[r].pending) ELSE table
        /\ st' = IF ok THEN [st EXCEPT ![r].pending = <<>>,
                                       ![r].total_loaded = AddLoaded(@, st[r].rows_to_insert),
                                       ![r].pc = "paginate"]
                 ELSE [st EXCEPT ![r].pc = "except"]
    /\ UNCHANGED <<audit, env, req, pages>>

\* `if next_row`
HasNext(h) == Truthy(h)

\* A variant that asks for the same page again when the header is missing.
Paginate_NoBreak(r) ==
    /\ st[r].pc = "paginate"
    /\ st' = IF HasNext(st[r].next_row)
             THEN IF IntOf(st[r].next_row) = -1
                  THEN [st EXCEPT ![r].pc = "except"]
                  ELSE [st EXCEPT ![r].first_row_number = IntOf(st[r].next_row),
                                  ![r].pc = "fetch"]
             ELSE [st EXCEPT ![r].pc = "fetch"]
    /\ UNCHANGED <<audit, env, req, table, calls, pages>>

\* A variant that asks for the row after the one the header names.
Paginate_OffByOne(r) ==
    /\ st[r].pc = "paginate"
    /\ st' = IF HasNext(st[r].next_row)
             THEN IF IntOf(st[r].next_row) = -1
                  THEN [st EXCEPT ![r].pc = "except"]
                  ELSE [st EXCEPT ![r].first_row_number = IntOf(st[r].next_row) + 1,
                                  ![r].pc = "fetch"]
             ELSE [st EXCEPT ![r].pc = "return_ok"]
    /\ UNCHANGED <<audit, env, req, table, calls, pages>>

\* Lines 124-129: follow the X-Next-Row-Number header or leave the loop.
Paginate(r) ==
    /\ st[r].pc = "paginate"
    /\ st' = IF HasNext(st[r].next_row)
             THEN IF IntOf(st[r].next_row) = -1
                  THEN [st EXCEPT ![r].pc = "except"]
                  ELSE [st EXCEPT ![r].first_row_number = IntOf(st[r].next_row),
                                  ![r].pc = "fetch"]
             ELSE [st EXCEPT ![r].pc = "return_ok"]
    /\ UNCHANGED <<audit, env, req, table, calls, pages>>

\* Lines 131-134: the success response.
ReturnSuccess(r) ==
    /\ st[r].pc = "return_ok"
    /\ st' = [st EXCEPT ![r].status = 200, ![r].pc = "finally"]
    /\ UNCHANGED <<audit, env, req, table, calls, pages>>

\* A variant whose handler cleans the staging table up after a failure.
HandleException_ClearsStaging(r) ==
    /\ st[r].pc = "except"
    /\ st' = [st EXCEPT ![r].status = 500, ![r].pc = "finally"]
    /\ table' = <<>>
    /\ UNCHANGED <<audit, env, req, calls, pages>>

\* Lines 136-138: `except Exception` logs and answers 500.
HandleException(r) ==
    /\ st[r].pc = "except"
    /\ st' = [st EXCEPT ![r].status = 500, ![r].pc = "finally"]
    /\ UNCHANGED <<audit, env, req, table, calls, pages>>

\* `if conn`
HasConn(c) == c # "none"

\* A variant that closes the session at the end of the try block only.
Finally_ClosesOnSuccessOnly(r) ==
    /\ st[r].pc = "finally"
    /\ IF HasConn(st[r].conn) /\ st[r].status = 200
       THEN /\ calls' = Logged(r, Call("close", "ok"))
            /\ st' = [st EXCEPT ![r].conn = "closed", ![r].pending = <<>>, ![r].pc = "done"]
       ELSE /\ st' = [st EXCEPT ![r].pending = <<>>, ![r].pc = "done"]
            /\ UNCHANGED calls
    /\ UNCHANGED <<audit, env, req, table, pages>>

\* Lines 140-143: close the session if there is one; closing discards what
\* the session has not committed.
Finally(r) ==
    /\ st[r].pc = "finally"
    /\ IF HasConn(st[r].conn)
       THEN /\ calls' = Logged(r, Call("close", "ok"))
            /\ st' = [st EXCEPT ![r].conn = "closed", ![r].pending = <<>>, ![r].pc = "done"]
       ELSE /\ st' = [st EXCEPT ![r].pc = "done"]
            /\ UNCHANGED calls
    /\ UNCHANGED <<audit, env, req, table, pages>>

Next ==
    \E r \in Runs :
        \/ LoadConfig(r)
        \/ ParseBody(r)
        \/ Connect(r)
        \/ Truncate(r)
        \/ CommitTruncate(r)
        \/ FetchPage(r)
        \/ InsertBatch(r)
        \/ CommitBatch(r)
        \/ Paginate(r)
        \/ ReturnSuccess(r)
        \/ HandleException(r)
        \/ Finally(r)

Spec == Init /\ [][Next]_vars


\* ----------------------------------------------------------------- claims
Done(r) == st[r].pc = "done"

\* A date the request leaves out: key missing, null or the empty string.
DateLeftOut(v) == v \in {Absent, None, PyStr(0)}

LacksDate(r) ==
    /\ req[r].kind = "object"
    /\ DateLeftOut(req[r].start_date) \/ DateLeftOut(req[r].end_date)

ConfigComplete == \A k \in ConfigKeys : env[k]

\* The rows a run hands to cursor.executemany.
RowsAtInsert(r) == IF st[r].pc \in {"insert", "commit"} THEN st[r].rows_to_insert ELSE <<>>

\* C1: in every row passed to the batch insert the billable column (5th) is 1
\* or 0. Python's True and False compare equal to 1 and 0 and are let pass, so
\* only a value that is neither breaks the statement.
C1_BillableIsOneOrZero ==
    \A r \in Runs : \A i \in DOMAIN RowsAtInsert(r) :
        RowsAtInsert(r)[i][5] \in {PyInt(1), PyInt(0), PyTrue, PyFalse}

\* C2: a request whose body lacks start_date or end_date makes no outbound API
\* call and no database call, at any point of the invocation.
C2_NoCallsWithoutDates ==
    \A r \in Runs : LacksDate(r) => calls[r] = <<>>

C2_Witness ==
    \E r \in Runs : LacksDate(r) /\ ConfigComplete /\ Done(r) /\ st[r].status = 400

\* C3: a malformed body (not JSON, or JSON that is not an object) or a body
\* lacking a date is answered with status 400. Stated here for the invocations
\* whose configuration is complete, a case of the claim's "whatever the state
\* of the configuration".
C3_BadBodyAnswered400 ==
    \A r \in Runs :
        (ConfigComplete /\ Done(r) /\ (req[r].kind # "object" \/ LacksDate(r)))
            => (st[r].status = 400 /\ ~st[r].raised)

\* C4: when a configuration variable is missing the invocation answers 500
\* straight away and never makes a network or database call.
C4_ConfigFailureBeforeAnyCall ==
    \A r \in Runs :
        (st[r].pc # "idle" /\ ~ConfigComplete) =>
            /\ calls[r] = <<>>
            /\ st[r].pc \in {"config", "done"}
            /\ Done(r) => (st[r].status = 500 /\ ~st[r].raised)

C4_Witness ==
    \E r \in Runs : Done(r) /\ st[r].status = 500 /\ ~LacksDate(r) /\ req[r].kind = "object"
                    /\ env["TOGGL_API_TOKEN"] /\ env["TOGGL_WORKSPACE_ID"]
                    /\ ~env["SqlConnectionString"]


\* The response carries a next cursor: an X-Next-Row-Number header with a value.
CarriesCursor(p) == p.next_row \notin {NoHeader, EmptyHeader}

RECURSIVE SumRows(_)
SumRows(ps) == IF ps = <<>> THEN 0 ELSE Len(Flatten(Head(ps).data)) + SumRows(Tail(ps))

AllNonEmpty(ps) == \A i \in DOMAIN ps : ps[i].data # <<>>

\* C5: a run that succeeds over non-empty pages has fetched exactly the pages
\* up to and including the first one without a next cursor (every earlier page
\* carried one, no fetch failed or went beyond), and its total is the sum of the
\* rows flattened from those pages.
C5_FetchCountAndTotal ==
    \A r \in Runs :
        (Done(r) /\ st[r].status = 200 /\ AllNonEmpty(pages[r])) =>
            LET n == Len(pages[r])
            IN  /\ n >= 1
                /\ NumCalls(r, "post") = n
                /\ \A i \in 1..(n - 1) : CarriesCursor(pages[r][i])
                /\ ~CarriesCursor(pages[r][n])
                /\ st[r].total_loaded = SumRows(pages[r])

C5_Witness ==
    \E r \in Runs :
        /\ Done(r) /\ st[r].status = 200 /\ AllNonEmpty(pages[r])
        /\ Len(pages[r]) = 2
        /\ Len(Flatten(pages[r][1].data)) = 2
        /\ st[r].total_loaded = 3

LastCall(r) == calls[r][Len(calls[r])]

\* C6: once a fetched page has zero entries the run makes no further call but
\* the closing of its session (no fetch, no insert, no commit) and ends with
\* status 200, whatever next-cursor header that response carries.
C6_EmptyPageEndsRun ==
    \A r \in Runs : \A i \in DOMAIN pages[r] :
        pages[r][i].data = <<>> =>
            /\ i = Len(pages[r])
            /\ st[r].pc \in {"return_ok", "finally", "done"}
            /\ \/ LastCall(r) = Call("post", "ok")
               \/ /\ LastCall(r) = Call("close", "ok")
                  /\ calls[r][Len(calls[r]) - 1] = Call("post", "ok")
            /\ st[r].pc \in {"finally", "done"} => st[r].status = 200

C6_Witness ==
    \E r \in Runs :
        /\ Done(r) /\ st[r].status = 200
        /\ Len(pages[r]) = 2
        /\ pages[r][2].data = <<>>
        /\ pages[r][2].next_row = NumHeader(51)


\* The rows of the pages whose commit succeeded, read off the call history:
\* k counts the decoded responses among the calls already passed.
RECURSIVE CommittedRows(_, _, _)
CommittedRows(r, cs, k) ==
    IF cs = <<>> THEN <<>>
    ELSE LET c == Head(cs)
         IN  IF c = Call("post", "ok") THEN CommittedRows(r, Tail(cs), k + 1)
             ELSE IF c = Call("commit", "ok") /\ k > 0
                  THEN Flatten(pages[r][k].data) \o CommittedRows(r, Tail(cs), k)
                  ELSE CommittedRows(r, Tail(cs), k)

\* Position of the first failed page request, insert or page commit (0: none).
FailedAt(r) ==
    LET bad == {i \in DOMAIN calls[r] :
                  /\ calls[r][i].res # "ok"
                  /\ calls[r][i].op \in {"post", "insert", "commit"}
                  /\ i > 3}
    IN  IF bad = {} THEN 0 ELSE CHOOSE i \in bad : \A j \in bad : i <= j

\* C7: when the fetch or the load of a page fails, the run ends with status
\* 500, makes no further call but the closing of its session, and the staging
\* table still holds every row of the pages committed before, in order.
C7_CommittedPagesSurviveFailure ==
    \A r \in Runs :
        (Done(r) /\ FailedAt(r) # 0) =>
            /\ st[r].status = 500
            /\ \A j \in (FailedAt(r) + 1)..Len(calls[r]) : calls[r][j].op = "close"
            /\ table = CommittedRows(r, calls[r], 0)

C7_Witness ==
    \E r \in Runs :
        /\ Done(r) /\ FailedAt(r) # 0
        /\ calls[r][FailedAt(r)] = Call("post", "non2xx")
        /\ Len(table) = 2

\* C8 as claimed: whatever terminal state an invocation reaches, the database
\* session has been closed exactly once when it returns.
C8_ClosedOnceOnEveryExit ==
    \A r \in Runs : Done(r) => NumCalls(r, "close") = 1

Connected(r) == \E i \in DOMAIN calls[r] : calls[r][i] = Call("connect", "ok")

\* C8 as amended: a session that was opened is closed exactly once by the time
\* the invocation returns, on success and on every error path; an invocation
\* that opened none (configuration error, client input error, failed connect)
\* closes nothing.
C8_OpenedSessionClosedOnce ==
    \A r \in Runs :
        /\ NumCalls(r, "close") <= 1
        /\ Done(r) =>
            /\ st[r].conn # "open"
            /\ NumCalls(r, "close") = IF Connected(r) THEN 1 ELSE 0

C8_Witness ==
    \E r \in Runs :
        /\ Done(r) /\ st[r].status = 500 /\ Connected(r)
        /\ NumCalls(r, "close") = 1
        /\ NumCalls(r, "insert") = 1


\* C9: a run issues the staging truncate at most once, and exactly once when
\* it got a session; every insert comes after that truncate was committed
\* (the run's calls start connect, truncate, commit, all successful), and no
\* truncate follows an insert.
C9_TruncateOnceBeforeInserts ==
    \A r \in Runs :
        /\ NumCalls(r, "truncate") <= 1
        /\ (Connected(r) /\ st[r].pc \notin {"truncate"}) => NumCalls(r, "truncate") = 1
        /\ \A i \in DOMAIN calls[r] :
              calls[r][i].op = "insert" =>
                 /\ i > 3
                 /\ calls[r][2] = Call("truncate", "ok")
                 /\ calls[r][3] = Call("commit", "ok")
                 /\ \A j \in i..Len(calls[r]) : calls[r][j].op # "truncate"

C9_Witness ==
    \E r \in Runs :
        /\ Done(r) /\ st[r].status = 200
        /\ NumCalls(r, "insert") = 2
        /\ NumCalls(r, "truncate") = 1

\* Positions of the page requests in a call history.
PostIndexes(cs) == {i \in DOMAIN cs : cs[i].op = "post"}

\* Position of the first page request after position i (Len + 1: none).
NextPost(cs, posts, i) ==
    LET later == {j \in posts : j > i}
    IN  IF later = {} THEN Len(cs) + 1 ELSE CHOOSE j \in later : \A k \in later : j <= k

LoaderCalls(seg) == SelectSeq(seg, LAMBDA c : c.op \in {"insert", "commit"})

InsertOk == Call("insert", "ok")
InsertThenCommit == <<Call("insert", "ok"), Call("commit", "ok")>>
LoadShapes ==
    {<<>>, <<Call("insert", "fail")>>, <<InsertOk>>,
     <<InsertOk, Call("commit", "fail")>>, InsertThenCommit}

\* C10: for every fetched page the loader runs at most once. A page that
\* flattens to no row gets no insert and no commit; a page with rows gets one
\* insert, followed at once by one commit (the commit is the run's next step
\* after a successful insert); and the next page is requested only after that
\* commit succeeded. The calls made for a page are those between its request
\* and the next request.
C10_OneLoadPerPage ==
    \A r \in Runs :
        LET cs == calls[r]
            posts == PostIndexes(cs)
        IN  \A i \in posts :
              LET next == NextPost(cs, posts, i)
                  seg == SubSeq(cs, i + 1, next - 1)
                  load == LoaderCalls(seg)
                  number == Cardinality({j \in posts : j <= i /\ cs[j].res = "ok"})
                  rows == IF cs[i].res = "ok" THEN Flatten(pages[r][number].data) ELSE <<>>
              IN  /\ rows = <<>> => load = <<>>
                  /\ rows # <<>> =>
                       /\ load \in LoadShapes
                       /\ load = SubSeq(seg, 1, Len(load))
                       /\ load = <<>> => st[r].pc = "insert"
                       /\ load = <<InsertOk>> => st[r].pc = "commit"
                       /\ next <= Len(cs) => load = InsertThenCommit
                       /\ (Done(r) /\ st[r].status = 200) => load = InsertThenCommit

C10_Witness ==
    \E r \in Runs :
        /\ Done(r) /\ st[r].status = 200
        /\ Len(pages[r]) = 2
        /\ Len(Flatten(pages[r][1].data)) = 2
        /\ pages[r][2].data # <<>> /\ Flatten(pages[r][2].data) = <<>>
        /\ NumCalls(r, "insert") = 1
        /\ NumCalls(r, "commit") = 2


DetailFull == Detail(PyInt(100), PyStr(2), PyStr(3), PyInt(60), PyStr(4))
DetailSparse == Detail(PyInt(101), Absent, None, Absent, PyStr(7))
DetailBare == Detail(Absent, Absent, Absent, Absent, Absent)

ListShapes ==
    {NoList, NullList, List(<<>>), List(<<DetailFull>>), List(<<DetailBare>>),
     List(<<DetailSparse, DetailFull>>), List(<<DetailFull, DetailSparse>>)}

FlattenEntries ==
    [user_id : {PyInt(7)}, project_id : {None}, task_id : {PyInt(5)},
     billable : {PyTrue, PyFalse, None}, description : {PyStr(1)},
     time_entries : ListShapes]
    \cup
    [user_id : {Absent}, project_id : {Absent}, task_id : {Absent},
     billable : {Absent}, description : {Absent},
     time_entries : ListShapes]

FlattenPages == SeqsUpTo(FlattenEntries, MaxPageLen)

InitFlatten ==
    /\ audit = FALSE
    /\ env = [k \in ConfigKeys |-> TRUE]
    /\ req = [r \in Runs |-> [kind |-> "invalid", start_date |-> Absent, end_date |-> Absent]]
    /\ \E data \in FlattenPages :
          st = [r \in Runs |-> IF r = 1 THEN [Local0 EXCEPT !.pc = "flatten", !.data = data]
                               ELSE Local0]
    /\ table = <<>>
    /\ calls = [r \in Runs |-> <<>>]
    /\ pages = [r \in Runs |-> <<>>]

\* Lines 85-109 on their own: rows_to_insert for the decoded page in data.
FlattenData(r) ==
    /\ st[r].pc = "flatten"
    /\ st' = [st EXCEPT ![r].rows_to_insert = Flatten(st[r].data), ![r].pc = "flattened"]
    /\ UNCHANGED <<audit, env, req, table, calls, pages>>

NextFlatten == \E r \in Runs : FlattenData(r)

SpecFlatten == InitFlatten /\ [][NextFlatten]_vars

\* What the claim expects of one page.
NullIfMissing(v) == IF v = Absent THEN None ELSE v

HasFirstDetail(e) == e.time_entries.tag = "list" /\ Len(e.time_entries.items) >= 1

KeptEntries(data) == SelectSeq(data, HasFirstDetail)

\* C12: the batch built from a page holds, in page order, one row per entry
\* whose time_entries list is non-empty; the row's detail columns (1, 7, 8, 9,
\* 10) come from the first detail record, its entry columns (2, 3, 4, 6) from
\* the entry, and a missing key gives null. Entries whose list is empty, null
\* or missing give no row. (Column 5, billable, is the subject of C1.)
C12_OneRowPerEntryWithDetails ==
    \A r \in Runs :
        st[r].pc = "flattened" =>
            LET kept == KeptEntries(st[r].data)
                rows == st[r].rows_to_insert
            IN  /\ Len(rows) = Len(kept)
                /\ \A i \in DOMAIN kept :
                      LET e == kept[i]
                          d == e.time_entries.items[1]
                      IN  /\ Len(rows[i]) = 10
                          /\ rows[i][1] = NullIfMissing(d.id)
                          /\ rows[i][2] = NullIfMissing(e.user_id)
                          /\ rows[i][3] = NullIfMissing(e.project_id)
                          /\ rows[i][4] = NullIfMissing(e.task_id)
                          /\ rows[i][6] = NullIfMissing(e.description)
                          /\ rows[i][7] = NullIfMissing(d.start)
                          /\ rows[i][8] = NullIfMissing(d.stop)
                          /\ rows[i][9] = NullIfMissing(d.seconds)
                          /\ rows[i][10] = NullIfMissing(d.at)

C12_Witness ==
    \E r \in Runs :
        /\ st[r].pc = "flattened"
        /\ Len(st[r].data) = 2
        /\ st[r].data[1].time_entries = NoList
        /\ st[r].data[2].time_entries = List(<<DetailSparse, DetailFull>>)
        /\ st[r].data[2].user_id = Absent
        /\ Len(st[r].rows_to_insert) = 1
        /\ st[r].rows_to_insert[1][1] = PyInt(101)
        /\ st[r].rows_to_insert[1][2] = None


\* The number an X-Next-Row-Number header names.
CursorOf(h) == h[2]

AllCallsOk(r) == \A i \in DOMAIN calls[r] : calls[r][i].res = "ok"

\* C13: always, the first page request carries first_row_number = 1 and every later
\* one the value of the X-Next-Row-Number header of the response before it
\* (for the requests already answered, and for the one about to be sent); a
\* run whose last response had rows to load and no such header ends with
\* status 200 unless a call failed.
C13_CursorFollowsHeader ==
    [](\A r \in Runs :
          LET ps == pages[r]
              n == Len(ps)
          IN  /\ \A i \in DOMAIN ps :
                    ps[i].first_row_number = IF i = 1 THEN 1 ELSE CursorOf(ps[i - 1].next_row)
              /\ st[r].pc = "fetch" =>
                    st[r].first_row_number = IF n = 0 THEN 1 ELSE CursorOf(ps[n].next_row)
              /\ (n > 0 /\ Done(r) /\ AllCallsOk(r) /\ ps[n].next_row = NoHeader) =>
                    st[r].status = 200)

C13_Witness ==
    \E r \in Runs :
        /\ Done(r) /\ st[r].status = 200
        /\ Len(pages[r]) = 2
        /\ pages[r][1].next_row = NumHeader(51)
        /\ pages[r][2].first_row_number = 51
        /\ pages[r][2].data # <<>>
        /\ pages[r][2].next_row = NoHeader


\* The rows flattened from a sequence of responses, in order.
RECURSIVE RowsOf(_)
RowsOf(ps) == IF ps = <<>> THEN <<>> ELSE Flatten(Head(ps).data) \o RowsOf(Tail(ps))

\* C14: whenever a run, the only one in flight, has succeeded, the staging
\* table holds exactly the rows flattened from the pages the run fetched, in order,
\* and nothing of what it held before the run.
C14_TableReplacedByRun ==
    [](\A r \in Runs :
          (Done(r) /\ st[r].status = 200) => table = RowsOf(pages[r]))

C14_Witness ==
    \E r \in Runs :
        /\ Done(r) /\ st[r].status = 200
        /\ Len(pages[r]) = 2
        /\ Len(table) = 3
        /\ \A i \in DOMAIN table : table[i] # OldRow


\* --------------------------------------------- two overlapping invocations
\* Two invocations on the same staging table, with a well-behaved environment:
\* configuration and bodies are complete, the database does not fail, the API
\* answers with a one-entry page or a non-2xx status.
OverlapPages == {<<EntryA>>, <<EntryB>>}

Quiet ==
    \A r \in Runs :
        /\ \A i \in DOMAIN calls[r] : calls[r][i].res \in {"ok", "non2xx"}
        /\ \A i \in DOMAIN pages[r] :
              /\ pages[r][i].data \in OverlapPages
              /\ pages[r][i].next_row \in {NoHeader, NumHeader(51)}

InitTwo ==
    /\ InitWith({1, 2}, TRUE)
    /\ \A k \in ConfigKeys : env[k]
    /\ \A r \in Runs : req[r] = [kind |-> "object", start_date |-> PyStr(1), end_date |-> PyStr(1)]

NextTwo ==
    \E r \in Runs :
        \/ LoadConfig(r) /\ Quiet'
        \/ ParseBody(r) /\ Quiet'
        \/ Connect(r) /\ Quiet'
        \/ Truncate(r) /\ Quiet'
        \/ CommitTruncate(r) /\ Quiet'
        \/ FetchPage(r) /\ Quiet'
        \/ InsertBatch(r) /\ Quiet'
        \/ CommitBatch(r) /\ Quiet'
        \/ Paginate(r) /\ Quiet'
        \/ ReturnSuccess(r) /\ Quiet'
        \/ HandleException(r) /\ Quiet'
        \/ Finally(r) /\ Quiet'

SpecTwo == InitTwo /\ [][NextTwo]_vars

\* The run has committed its truncate.
Cleared(r) == Len(calls[r]) >= 3 /\ calls[r][3] = Call("commit", "ok")

\* C15: once the staging clear (truncate and commit) has been performed, by
\* one run or by two runs one after the other, and no insert has been made,
\* the table is empty: a second clear leaves the state of the first.
C15_ClearTwiceLeavesEmpty ==
    ((\E r \in Runs : Cleared(r)) /\ (\A q \in Runs : NumCalls(q, "insert") = 0))
        => table = <<>>

C15_Witness ==
    /\ \A r \in Runs : Cleared(r) /\ st[r].pc = "fetch" /\ NumCalls(r, "post") = 0
    /\ table = <<>>

\* C16: no step of a run waits for another run: whatever the other run is
\* doing, a run that is about to truncate, commit or insert can do so. (The
\* state the claim names, a success whose total is not what the table holds,
\* is C16_Witness.)
C16_NoLock ==
    \A r \in Runs :
        /\ st[r].pc = "truncate" => ENABLED Truncate(r)
        /\ st[r].pc = "commit_truncate" => ENABLED CommitTruncate(r)
        /\ st[r].pc = "insert" => ENABLED InsertBatch(r)
        /\ st[r].pc = "commit" => ENABLED CommitBatch(r)

C16_Witness ==
    \E r \in Runs :
        /\ Done(r) /\ st[r].status = 200
        /\ st[r].total_loaded = 2
        /\ RowsOf(pages[r]) = <<Row(EntryA), Row(EntryA)>>
        /\ table = <<Row(EntryB)>>


\* ------------------------------------------------------ the unbounded loop
\* One invocation without histories and without a bound on its page requests.
\* The upstream data is small: the API stops serving entries with details once
\* the table holds MaxStaged rows (it goes on serving pages without). The
\* handler is one thread whose calls all return, so its next step is always
\* taken: weak fairness of the next-state relation.
RoomInTable(r) ==
    st[r].pc = "insert" => Len(table) + Len(st[r].rows_to_insert) <= MaxStaged

InitLive == InitWith({1}, FALSE)

NextLive ==
    \E r \in Runs :
        \/ LoadConfig(r)
        \/ ParseBody(r)
        \/ Connect(r)
        \/ Truncate(r)
        \/ CommitTruncate(r)
        \/ FetchPage(r) /\ RoomInTable(r)'
        \/ InsertBatch(r)
        \/ CommitBatch(r)
        \/ Paginate(r)
        \/ ReturnSuccess(r)
        \/ HandleException(r)
        \/ Finally(r)

SpecLive == InitLive /\ [][NextLive]_vars /\ WF_vars(NextLive)

\* C17 as claimed: once started, every run eventually reaches a terminal state
\* and returns, whatever the upstream API answers.
C17_EveryRunTerminates ==
    \A r \in Runs : (st[r].pc = "config") ~> Done(r)

\* The run has just handled a non-empty page that names a next row.
FedAnotherPage(r) ==
    /\ st[r].pc = "paginate"
    /\ st[r].data # <<>>
    /\ st[r].next_row \in {NumHeader(n) : n \in NextRows}

\* C17 as amended: once started, a run eventually reaches a terminal state
\* unless the API keeps answering with non-empty pages that name a next row,
\* in which case the run goes on fetching for ever.
C17_TerminatesUnlessFedForever ==
    \A r \in Runs : st[r].pc = "config" => (<>Done(r) \/ []<>FedAnotherPage(r))

C17_Witness ==
    \E r \in Runs :
        /\ ~audit
        /\ st[r].pc = "fetch"
        /\ st[r].first_row_number = 51
        /\ st[r].next_row = NumHeader(51)
        /\ st[r].total_loaded = MaxStaged
        /\ Flatten(st[r].data) = <<>>


\* The loop has been entered: line 63 has set the cursor.
InLoop(r) == st[r].first_row_number >= 1

\* C18: with one run in flight, at the start of every loop iteration and at
\* the end of a run that entered the loop, total_loaded is the number of rows
\* in the staging table, and at the end it is the number of rows of the
\* batches whose commit succeeded; rows of a batch whose insert or commit
\* failed are not counted.
C18_TotalCountsCommittedRows ==
    \A r \in Runs :
        /\ (InLoop(r) /\ st[r].pc \in {"fetch", "done"}) =>
              st[r].total_loaded = Len(table)
        /\ (InLoop(r) /\ st[r].pc = "done") =>
              st[r].total_loaded = Len(CommittedRows(r, calls[r], 0))

C18_Witness ==
    \E r \in Runs :
        /\ Done(r) /\ InLoop(r) /\ st[r].status = 500
        /\ Len(calls[r]) > 1
        /\ calls[r][Len(calls[r]) - 1] = Call("commit", "fail")
        /\ Len(st[r].rows_to_insert) = 1
        /\ st[r].total_loaded = 2
        /\ Len(table) = 2

\* The calls cs begin with a successful connect, truncate and commit.
SetUp(cs) ==
    /\ Len(cs) >= 3
    /\ cs[1] = Call("connect", "ok")
    /\ cs[2] = Call("truncate", "ok")
    /\ cs[3] = Call("commit", "ok")

\* One of the first three calls of run r failed.
SetUpFailed(r) == \E i \in DOMAIN calls[r] : i <= 3 /\ calls[r][i].res = "fail"

\* Run r makes a page request or an insert in this step.
FetchOrInsertStep(r) ==
    /\ Len(calls'[r]) = Len(calls[r]) + 1
    /\ calls'[r][Len(calls'[r])].op \in {"post", "insert"}

\* C19: a run makes a page request or an insert only after a successful
\* connect, truncate and commit of the truncate; a run in which one of the
\* three failed has made no page request and no insert, is on its way out
\* and answers 500.
C19_NoFetchBeforeCommittedTruncate ==
    /\ [][\A r \in Runs : FetchOrInsertStep(r) => SetUp(calls[r])]_vars
    /\ [](\A r \in Runs :
              SetUpFailed(r) =>
                 /\ NumCalls(r, "post") = 0
                 /\ NumCalls(r, "insert") = 0
                 /\ st[r].pc \in {"except", "finally", "done"}
                 /\ st[r].pc \in {"finally", "done"} => st[r].status = 500)

C19_Witness ==
    \E r \in Runs :
        /\ Done(r) /\ st[r].status = 500
        /\ calls[r] = <<Call("connect", "ok"), Call("truncate", "ok"),
                        Call("commit", "fail"), Call("close", "ok")>>
        /\ table = <<OldRow>>

====
